---- MODULE Spec2Model ----
(***************************************************************************)
(* Model of the recursive cluster-tree builder of dataprep/transform.py    *)
(* (run_recursive_clustering / _recursive_cluster_node) over the SQLite    *)
(* tables cluster_tree and page_vector.                                    *)
(*                                                                         *)
(* The recursion is unfolded into an explicit call stack so that every     *)
(* intermediate store state of a run is a state of the model.  The         *)
(* outcomes of MiniBatchKMeans.fit_predict (the labels) and of             *)
(* fast_silhouette_score (passes / below threshold / raises) are inputs    *)
(* chosen nondeterministically.                                            *)
(***************************************************************************)
EXTENDS Integers, Sequences, FiniteSets, TLC

\* ------------------------------------------------------------------ bounds
MaxDocs == 3

\* program constant: sample_doc_ids=cluster_page_ids[:10]
SampleSize == 10

\* inputs the callers may pass
Namespaces == {"A", "B"}
LeafTargets == {1, 2}
MaxKs == {1, 2, 3}
MaxDepths == {0, 1, 2}
SilhouetteOutcomes == {"pass", "low", "fail"}

\* outcomes of the try block of _recursive_cluster_node: those of the score,
\* or the score is computed and the centroid UPDATE raises sqlite3.Error
TryOutcomes == SilhouetteOutcomes \cup {"update_raised"}

PageIds == 1..MaxDocs

\* SQL NULL for integer columns (node ids start at 1)
NULL == 0

VARIABLES
    cluster_tree,   \* table cluster_tree: a set of rows
    page_vector,    \* table page_vector: namespace -> page_id -> row
    stack,          \* call stack of _recursive_cluster_node frames, top last
    ret,            \* value returned by the call that returned last
    pc,             \* "idle" | "running" | "done" | "raised" | "backfilled"
    args,           \* arguments of the current / last run_recursive_clustering
    result,         \* value returned by run_recursive_clustering
    alloc_log,      \* history: one record per node insertion, in order
    score_log,      \* history: (node_id, outcome) of every scored node
    assign_log,     \* history: assignment writes of the current run, in order
    embedding_vector, \* page_vector.embedding_vector: namespace -> page -> value
    reduced_value,  \* page_vector.reduced_vector: the value, where not NULL
    three_d_vector, \* page_vector.three_d_vector: namespace -> page -> value
    backfill,       \* the compute_missing_centroids call: outcome record
    proj,           \* the run_pca_per_cluster call: locals and position
    pca,            \* the run_pca call: locals and position
    writers,        \* two interleaved tree builders: their allocation steps
    lang,           \* languages.py: the global table, its lock, the threads
    cache           \* cache.py: the global TTLCache, the clock, the calls

vars == <<cluster_tree, page_vector, stack, ret, pc, args, result,
          alloc_log, score_log, assign_log,
          embedding_vector, reduced_value, three_d_vector, backfill, proj, pca,
          writers, lang, cache>>

\* what the tree builder never touches
nonBuilderVars ==
    <<embedding_vector, reduced_value, three_d_vector, backfill, proj, pca,
      writers, lang, cache>>

\* ----------------------------------------------------------- pure helpers
Min(a, b) == IF a <= b THEN a ELSE b

\* math.ceil(a / b) for positive b
Ceil(a, b) == (a + b - 1) \div b

Range(s) == {s[i] : i \in DOMAIN s}

\* centroid column: NULL or the blob written by the builder
NoCentroid == [kind |-> "NULL", n |-> 0]

\* kmeans.cluster_centers_.mean(axis=0): the mean of the k sub-centroids
KMeansCentroid(k) == [kind |-> "mean_of_cluster_centers", n |-> k]

\* ClusterTreeNode(...) as inserted by the builder (child_count defaults to 0,
\* centroid to None)
ClusterTreeNode(namespace, node_id, parent_id, depth, doc_count, sample) ==
    [namespace |-> namespace, node_id |-> node_id, parent_id |-> parent_id,
     depth |-> depth, doc_count |-> doc_count, child_count |-> 0,
     centroid |-> NoCentroid, sample_doc_ids |-> sample]

\* ------------------------------------------------ database.py (store API)
\* get_page_reduced_vectors: the pages of the namespace that have a reduced
\* vector, in page-id order
get_page_reduced_vectors(pv, namespace) ==
    SelectSeq([i \in PageIds |-> i],
              LAMBDA p : pv[namespace][p].reduced_vector)

\* get_cluster_tree_max_node_id: max(node_id) over the whole table
get_cluster_tree_max_node_id(tree) ==
    IF tree = {} THEN 0
    ELSE CHOOSE m \in {r.node_id : r \in tree} :
             \A r \in tree : r.node_id <= m

\* insert_cluster_tree_node: adds the row; returns the id of the inserted row
insert_cluster_tree_node(tree, node) == tree \cup {node}

inserted_node_id(node) == node.node_id

\* update_cluster_tree_assignments: cluster_node_id := node_id for the pages
update_cluster_tree_assignments(pv, namespace, node_id, page_ids) ==
    [pv EXCEPT ![namespace] =
        [p \in PageIds |->
            IF p \in Range(page_ids)
            THEN [pv[namespace][p] EXCEPT !.cluster_node_id = node_id]
            ELSE pv[namespace][p]]]

\* update_cluster_tree_child_count: child_count := count for (namespace, node)
update_cluster_tree_child_count(tree, namespace, node_id, count) ==
    {IF r.namespace = namespace /\ r.node_id = node_id
     THEN [r EXCEPT !.child_count = count] ELSE r : r \in tree}

\* ------------------------------------------- _recursive_cluster_node parts
\* "UPDATE cluster_tree SET centroid = ? WHERE node_id = ?"
UpdateCentroid(tree, node_id, centroid) ==
    {IF r.node_id = node_id THEN [r EXCEPT !.centroid = centroid] ELSE r
     : r \in tree}

\* variant: the depth test lets one more level through
StopAsLeaf_OneLevelLate(doc_count, depth, leaf_target, max_depth) ==
    doc_count <= leaf_target \/ depth > max_depth

\* variant: the depth test stops one level early
StopAsLeaf_OneLevelEarly(doc_count, depth, leaf_target, max_depth) ==
    doc_count <= leaf_target \/ depth + 1 >= max_depth

\* stopping conditions
StopAsLeaf(doc_count, depth, leaf_target, max_depth) ==
    doc_count <= leaf_target \/ depth >= max_depth

\* k = min(max_k, math.ceil(doc_count / leaf_target))
ComputeK(doc_count, leaf_target, max_k) ==
    Min(max_k, Ceil(doc_count, leaf_target))

\* variant: the mask also takes the documents of the clusters before
ClusterPageIds_UpTo(page_ids, labels, cluster_id) ==
    LET idx == {i \in DOMAIN page_ids : labels[i] <= cluster_id}
    IN [j \in 1..Cardinality(idx) |->
           page_ids[CHOOSE i \in idx :
                        Cardinality({h \in idx : h <= i}) = j]]

\* cluster_page_ids = [page_ids[i] for i in range(len(page_ids)) if mask[i]]
RECURSIVE ClusterPageIds(_, _, _)
ClusterPageIds(page_ids, labels, cluster_id) ==
    IF page_ids = <<>> THEN <<>>
    ELSE (IF Head(labels) = cluster_id THEN <<Head(page_ids)>> ELSE <<>>)
         \o ClusterPageIds(Tail(page_ids), Tail(labels), cluster_id)

\* cluster_page_ids[:10]
SampleDocIds(page_ids) == SubSeq(page_ids, 1, Min(Len(page_ids), SampleSize))

\* MiniBatchKMeans(n_clusters=k).fit_predict: one label in 0..k-1 per vector
FitPredict(n, k) == [1..n -> 0..(k - 1)]

\* fast_silhouette_score -> sklearn silhouette_score: it raises ValueError
\* unless the number of distinct labels is between 2 and n_samples - 1
ScoreCanBeComputed(cluster_labels) ==
    LET n_labels == Cardinality(Range(cluster_labels))
    IN 1 < n_labels /\ n_labels < Len(cluster_labels)

\* a fresh call frame of _recursive_cluster_node
Frame(node_id, parent_id, page_ids, depth, doc_count) ==
    [node_id |-> node_id, parent_id |-> parent_id, page_ids |-> page_ids,
     depth |-> depth, doc_count |-> doc_count,
     at |-> "enter", k |-> 0, cluster_labels |-> <<>>, cluster_id |-> 0,
     child_node_id |-> NULL,
     child_nodes_processed |-> 0, descendant_nodes_processed |-> 0]

Top == stack[Len(stack)]
Pop == SubSeq(stack, 1, Len(stack) - 1)
ReplaceTop(f) == [stack EXCEPT ![Len(stack)] = f]

\* ------------------------------------------------ run_recursive_clustering
\* variant: the size test compares with <= instead of <
InsufficientData_OffByOneHigh(doc_count, max_k) ==
    doc_count = 0 \/ doc_count <= max_k

\* variant: the size test lets a namespace one page short of max_k through
InsufficientData_OffByOneLow(doc_count, max_k) ==
    doc_count = 0 \/ doc_count + 1 < max_k

\* "if doc_count == 0: return 0" and "if doc_count < max_k: return 0"
InsufficientData(doc_count, max_k) == doc_count = 0 \/ doc_count < max_k

\* variant: the "+ 1" is missing
NextNodeId_NoIncrement(tree) == get_cluster_tree_max_node_id(tree)

\* root_node_id / child_node_id = get_cluster_tree_max_node_id(sqlconn) + 1
NextNodeId(tree) == get_cluster_tree_max_node_id(tree) + 1

\* variant: every returned child is taken for a leaf
ChildWasLeaf_Always(returned) == returned >= 1

\* "if recursive_descendant_nodes_processed == 1" (the child was a leaf)
ChildWasLeaf(returned) == returned = 1

\* variant: k is written instead of the number of children created
ChildCountWritten_K(f) == f.k

\* the count handed to update_cluster_tree_child_count
ChildCountWritten(f) == f.child_nodes_processed

\* variant: a split node returns the number of its direct children
SplitReturnValue_CountsChildren(f) == f.child_nodes_processed

\* the value a split node returns
SplitReturnValue(f) == f.descendant_nodes_processed

AllocRecord(tree, node) ==
    [allocated |-> node.node_id, max_before |-> get_cluster_tree_max_node_id(tree),
     inserted |-> inserted_node_id(node)]

\* 2^n
RECURSIVE Pow2(_)
Pow2(n) == IF n = 0 THEN 1 ELSE 2 * Pow2(n - 1)

\* the vectors are modelled with three integer components
ZeroVec == <<0, 0, 0>>

\* the reduced vectors the builder and the backfill work on: one distinct
\* vector per page
TestVector(p) == <<Pow2(p - 1), 0, 0>>

\* three_d_vector column: NULL
NoThreeD == [method |-> "NULL", val |-> ZeroVec]

\* no compute_missing_centroids / run_pca_per_cluster / run_pca call yet
NoBackfill == [at |-> "idle"]
ProjIdle == [at |-> "idle"]
PcaIdle == [at |-> "idle"]

\* no concurrent builders, no language lookup, no cached call yet
WritersIdle == [at |-> "idle"]
LangIdle == [at |-> "idle"]
CacheIdle == [at |-> "idle"]

\* page_vector rows of one namespace: pages 1..n have a reduced vector
Pages(n) ==
    [p \in PageIds |-> [reduced_vector |-> p <= n, cluster_node_id |-> NULL]]

\* The store before the run: empty, or holding the tree that an earlier
\* run_recursive_clustering("B", leaf_target=2, max_k=2, max_depth=1) built
\* from the three pages of B: root 1 split into the leaves 2 (pages 1, 2)
\* and 3 (page 3), with a quality score that passed.
EarlierTreeOfB ==
    update_cluster_tree_child_count(
        UpdateCentroid(
            {ClusterTreeNode("B", 1, NULL, 0, 3, <<>>),
             ClusterTreeNode("B", 2, 1, 1, 2, <<1, 2>>),
             ClusterTreeNode("B", 3, 1, 1, 1, <<3>>)},
            1, KMeansCentroid(2)),
        "B", 1, 2)

EarlierPagesOfB ==
    [p \in PageIds |->
        [reduced_vector |-> p <= 3,
         cluster_node_id |-> IF p <= 2 THEN 2 ELSE IF p = 3 THEN 3 ELSE NULL]]

Init ==
    /\ \E n \in 0..MaxDocs :
          \/ /\ cluster_tree = {}
             /\ page_vector = [ns \in Namespaces |->
                                 IF ns = "A" THEN Pages(n) ELSE Pages(3)]
          \/ /\ cluster_tree = EarlierTreeOfB
             /\ page_vector = [ns \in Namespaces |->
                                 IF ns = "A" THEN Pages(n) ELSE EarlierPagesOfB]
    /\ stack = <<>>
    /\ ret = 0
    /\ pc = "idle"
    /\ args = [namespace |-> "A", leaf_target |-> 1, max_k |-> 1, max_depth |-> 0]
    /\ result = 0
    /\ alloc_log = <<>>
    /\ score_log = {}
    /\ assign_log = <<>>
    /\ embedding_vector = [ns \in Namespaces |-> [p \in PageIds |-> TRUE]]
    /\ reduced_value =
          [ns \in Namespaces |->
             [p \in PageIds |->
                IF page_vector[ns][p].reduced_vector THEN TestVector(p)
                ELSE ZeroVec]]
    /\ three_d_vector = [ns \in Namespaces |-> [p \in PageIds |-> NoThreeD]]
    /\ backfill = NoBackfill
    /\ proj = ProjIdle
    /\ pca = PcaIdle
    /\ writers = WritersIdle
    /\ lang = LangIdle
    /\ cache = CacheIdle

\* run_recursive_clustering up to the first call of _recursive_cluster_node
BuildTreeStart(namespace, leaf_target, max_k, max_depth) ==
    /\ UNCHANGED nonBuilderVars
    /\ pc = "idle"
    /\ args' = [namespace |-> namespace, leaf_target |-> leaf_target,
                max_k |-> max_k, max_depth |-> max_depth]
    /\ UNCHANGED <<ret, score_log, assign_log>>
    /\ LET page_ids == get_page_reduced_vectors(page_vector, namespace)
           doc_count == Len(page_ids)
           root_node_id == NextNodeId(cluster_tree)
           node == ClusterTreeNode(namespace, root_node_id, NULL, 0, doc_count, <<>>)
       IN IF InsufficientData(doc_count, max_k)
          THEN /\ pc' = "done"
               /\ result' = 0
               /\ UNCHANGED <<cluster_tree, page_vector, stack, alloc_log>>
          ELSE /\ pc' = "running"
               /\ cluster_tree' = insert_cluster_tree_node(cluster_tree, node)
               /\ alloc_log' = Append(alloc_log, AllocRecord(cluster_tree, node))
               /\ stack' = <<Frame(root_node_id, NULL, page_ids, 0, doc_count)>>
               /\ UNCHANGED <<page_vector, result>>

\* _recursive_cluster_node: a stopping condition holds, or k <= 1: return 1
NodeStopAsLeaf ==
    /\ UNCHANGED nonBuilderVars
    /\ pc = "running" /\ stack # <<>> /\ Top.at = "enter"
    /\ \/ StopAsLeaf(Top.doc_count, Top.depth, args.leaf_target, args.max_depth)
       \/ ComputeK(Top.doc_count, args.leaf_target, args.max_k) <= 1
    /\ stack' = Pop
    /\ ret' = 1
    /\ UNCHANGED <<cluster_tree, page_vector, pc, args, result,
                   alloc_log, score_log, assign_log>>

\* _recursive_cluster_node: clustering, quality score, centroid update
NodeCluster(outcome) ==
    /\ UNCHANGED nonBuilderVars
    /\ pc = "running" /\ stack # <<>> /\ Top.at = "enter"
    /\ ~StopAsLeaf(Top.doc_count, Top.depth, args.leaf_target, args.max_depth)
    /\ LET k == ComputeK(Top.doc_count, args.leaf_target, args.max_k)
       IN /\ k > 1
          /\ score_log' = score_log \cup {<<Top.node_id, outcome>>}
          /\ \E cluster_labels \in FitPredict(Len(Top.page_ids), k) :
             /\ outcome # "fail" => ScoreCanBeComputed(cluster_labels)
             /\ IF outcome \in {"fail", "update_raised"}
                THEN \* except Exception: the centroid was not written
                     /\ UNCHANGED cluster_tree
                     /\ stack' = ReplaceTop([Top EXCEPT !.at = "loop", !.k = k,
                                               !.cluster_labels = cluster_labels])
                     /\ UNCHANGED ret
                ELSE /\ cluster_tree' = UpdateCentroid(cluster_tree, Top.node_id,
                                                       KMeansCentroid(k))
                     /\ IF outcome = "low"
                        THEN /\ stack' = Pop
                             /\ ret' = 1
                        ELSE /\ stack' = ReplaceTop([Top EXCEPT !.at = "loop", !.k = k,
                                               !.cluster_labels = cluster_labels])
                             /\ UNCHANGED ret
    /\ UNCHANGED <<page_vector, pc, args, result, alloc_log, assign_log>>

\* loop body: "if cluster_size == 0: continue"
ChildSkip ==
    /\ UNCHANGED nonBuilderVars
    /\ pc = "running" /\ stack # <<>> /\ Top.at = "loop"
    /\ Top.cluster_id < Top.k
    /\ ClusterPageIds(Top.page_ids, Top.cluster_labels, Top.cluster_id) = <<>>
    /\ stack' = ReplaceTop([Top EXCEPT !.cluster_id = @ + 1])
    /\ UNCHANGED <<cluster_tree, page_vector, ret, pc, args, result,
                   alloc_log, score_log, assign_log>>

\* variant: the child is given its parent's depth
ChildDepth_SameAsParent(depth) == depth

\* "depth=depth + 1" of the child node and of the recursive call
ChildDepth(depth) == depth + 1

\* loop body: create the child node and call _recursive_cluster_node on it
ChildCreate ==
    /\ UNCHANGED nonBuilderVars
    /\ pc = "running" /\ stack # <<>> /\ Top.at = "loop"
    /\ Top.cluster_id < Top.k
    /\ LET cluster_page_ids ==
               ClusterPageIds(Top.page_ids, Top.cluster_labels, Top.cluster_id)
           cluster_size == Len(cluster_page_ids)
           child_node_id == NextNodeId(cluster_tree)
           child_node == ClusterTreeNode(args.namespace, child_node_id, Top.node_id,
                                         ChildDepth(Top.depth), cluster_size,
                                         SampleDocIds(cluster_page_ids))
       IN /\ cluster_size # 0
          /\ cluster_tree' = insert_cluster_tree_node(cluster_tree, child_node)
          /\ alloc_log' = Append(alloc_log, AllocRecord(cluster_tree, child_node))
          /\ stack' = Append(
                 ReplaceTop([Top EXCEPT !.at = "await",
                                        !.child_node_id = child_node_id,
                                        !.child_nodes_processed = @ + 1,
                                        !.descendant_nodes_processed = @ + 1]),
                 Frame(child_node_id, Top.node_id, cluster_page_ids,
                       ChildDepth(Top.depth), cluster_size))
    /\ UNCHANGED <<page_vector, ret, pc, args, result, score_log, assign_log>>

\* loop body: insert_cluster_tree_node raises sqlite3.Error; nothing on the
\* call path catches it, so run_recursive_clustering raises
ChildInsertRaises ==
    /\ UNCHANGED nonBuilderVars
    /\ pc = "running" /\ stack # <<>> /\ Top.at = "loop"
    /\ Top.cluster_id < Top.k
    /\ ClusterPageIds(Top.page_ids, Top.cluster_labels, Top.cluster_id) # <<>>
    /\ pc' = "raised"
    /\ stack' = <<>>
    /\ UNCHANGED <<cluster_tree, page_vector, ret, args, result,
                   alloc_log, score_log, assign_log>>

\* loop body after the recursive call returned: count, assign if leaf
ChildReturn ==
    /\ UNCHANGED nonBuilderVars
    /\ pc = "running" /\ stack # <<>> /\ Top.at = "await"
    /\ LET cluster_page_ids ==
               ClusterPageIds(Top.page_ids, Top.cluster_labels, Top.cluster_id)
       IN IF ChildWasLeaf(ret)
          THEN /\ page_vector' = update_cluster_tree_assignments(
                      page_vector, args.namespace, Top.child_node_id, cluster_page_ids)
               /\ assign_log' = Append(assign_log,
                      [node_id |-> Top.child_node_id, page_ids |-> cluster_page_ids])
          ELSE UNCHANGED <<page_vector, assign_log>>
    /\ stack' = ReplaceTop([Top EXCEPT !.at = "loop",
                                        !.descendant_nodes_processed = @ + ret,
                                        !.cluster_id = @ + 1])
    /\ UNCHANGED <<cluster_tree, ret, pc, args, result, alloc_log, score_log>>

\* after the loop: update_cluster_tree_child_count, return the node count
NodeFinish ==
    /\ UNCHANGED nonBuilderVars
    /\ pc = "running" /\ stack # <<>> /\ Top.at = "loop"
    /\ Top.cluster_id = Top.k
    /\ cluster_tree' = update_cluster_tree_child_count(
           cluster_tree, args.namespace, Top.node_id, ChildCountWritten(Top))
    /\ stack' = Pop
    /\ ret' = SplitReturnValue(Top)
    /\ UNCHANGED <<page_vector, pc, args, result, alloc_log, score_log,
                   assign_log>>

\* run_recursive_clustering: "return nodes_processed"
BuildTreeReturn ==
    /\ UNCHANGED nonBuilderVars
    /\ pc = "running" /\ stack = <<>>
    /\ pc' = "done"
    /\ result' = ret
    /\ UNCHANGED <<cluster_tree, page_vector, stack, ret, args,
                   alloc_log, score_log, assign_log>>

\* ------------------------------------------------ compute_missing_centroids
\* get_cluster_tree_nodes_missing_centroids: rows of the namespace whose
\* centroid is NULL
get_cluster_tree_nodes_missing_centroids(tree, namespace) ==
    {r \in tree : r.namespace = namespace /\ r.centroid = NoCentroid}

\* variant: a node counts as having children only from two children on
AssumptionViolations_MoreThanOneChild(tree, namespace) ==
    LET nodes_with_children ==
            {r.node_id : r \in {x \in tree :
                                   x.namespace = namespace /\ x.child_count > 1}}
    IN {r.node_id : r \in {x \in get_cluster_tree_nodes_missing_centroids(
                                      tree, namespace) :
                             x.node_id \in nodes_with_children}}

\* the assumption test of compute_missing_centroids: the node ids for which
\* it raises ValueError
AssumptionViolations(tree, namespace) ==
    LET nodes_with_children ==
            {r.node_id : r \in {x \in tree :
                                   x.namespace = namespace /\ x.child_count > 0}}
    IN {r.node_id : r \in {x \in get_cluster_tree_nodes_missing_centroids(
                                      tree, namespace) :
                             x.node_id \in nodes_with_children}}

\* variant: the vectors are not grouped by the node they are assigned to
NodeVectors_Ungrouped(tree, pv, namespace, node_id) ==
    {p \in PageIds :
        /\ pv[namespace][p].reduced_vector
        /\ \E ct \in tree : /\ ct.namespace = namespace
                            /\ ct.node_id = pv[namespace][p].cluster_node_id
                            /\ ct.centroid = NoCentroid}

\* node_vectors[node_id]: the pages the JOIN of page_vector with the
\* centroid-less rows of cluster_tree yields for the node
NodeVectors(tree, pv, namespace, node_id) ==
    {p \in PageIds :
        /\ pv[namespace][p].reduced_vector
        /\ pv[namespace][p].cluster_node_id = node_id
        /\ \E ct \in tree : /\ ct.namespace = namespace
                            /\ ct.node_id = node_id
                            /\ ct.centroid = NoCentroid}

RECURSIVE VectorSum(_, _, _)
VectorSum(rv, namespace, pages) ==
    IF pages = {} THEN ZeroVec
    ELSE LET p == CHOOSE x \in pages : TRUE
             rest == VectorSum(rv, namespace, pages \ {p})
         IN [i \in 1..3 |-> rv[namespace][p][i] + rest[i]]

\* np.array(vectors).mean(axis=0), kept exact as the sum and the count
MemberMean(rv, namespace, pages) ==
    [kind |-> "mean_of_member_vectors", n |-> Cardinality(pages),
     sum |-> VectorSum(rv, namespace, pages)]

\* "UPDATE cluster_tree SET centroid = ? WHERE namespace = ? AND node_id = ?"
\* for every node that has vectors
CentroidUpdates(tree, pv, rv, namespace) ==
    {r.node_id : r \in {x \in get_cluster_tree_nodes_missing_centroids(
                                   tree, namespace) :
                           NodeVectors(tree, pv, namespace, x.node_id) # {}}}

\* compute_missing_centroids(namespace), called when no build is running
ComputeMissingCentroids(namespace) ==
    /\ pc \in {"idle", "done"}
    /\ backfill.at = "idle"
    /\ pc' = "backfilled"
    /\ LET missing ==
               get_cluster_tree_nodes_missing_centroids(cluster_tree, namespace)
           violations == AssumptionViolations(cluster_tree, namespace)
           updates ==
               CentroidUpdates(cluster_tree, page_vector, reduced_value,
                               namespace)
       IN IF missing = {}
          THEN /\ backfill' = [at |-> "returned", namespace |-> namespace,
                               centroids_computed |-> 0, error_node |-> NULL]
               /\ UNCHANGED cluster_tree
          ELSE IF violations # {}
          THEN /\ \E node_id \in violations :
                     backfill' = [at |-> "raised", namespace |-> namespace,
                                  centroids_computed |-> 0,
                                  error_node |-> node_id]
               /\ UNCHANGED cluster_tree
          ELSE /\ backfill' = [at |-> "returned", namespace |-> namespace,
                               centroids_computed |-> Cardinality(updates),
                               error_node |-> NULL]
               /\ cluster_tree' =
                     {IF r.namespace = namespace /\ r.node_id \in updates
                      THEN [r EXCEPT !.centroid =
                               MemberMean(reduced_value, namespace,
                                   NodeVectors(cluster_tree, page_vector,
                                               namespace, r.node_id))]
                      ELSE r : r \in cluster_tree}
    /\ UNCHANGED <<page_vector, stack, ret, args, result, alloc_log,
                   score_log, assign_log, embedding_vector, reduced_value,
                   three_d_vector, proj, pca, writers, lang, cache>>

Next ==
    \/ \E namespace \in Namespaces, leaf_target \in LeafTargets,
          max_k \in MaxKs, max_depth \in MaxDepths :
          BuildTreeStart(namespace, leaf_target, max_k, max_depth)
    \/ NodeStopAsLeaf
    \/ \E outcome \in TryOutcomes : NodeCluster(outcome)
    \/ ChildSkip
    \/ ChildCreate
    \/ ChildInsertRaises
    \/ ChildReturn
    \/ NodeFinish
    \/ BuildTreeReturn
    \/ \E namespace \in Namespaces : ComputeMissingCentroids(namespace)

Spec == Init /\ [][Next]_vars

\* the program is one sequential thread: a step that can be taken is taken
FairSpec == Spec /\ WF_vars(Next)

\* ====================================================== run_pca_per_cluster
\* default of the parameter n_components
n_components == 3

\* values of batch_size the projector is called with
BatchSizes == {1, 2, 3}

\* node ids of the hand-built depth-0 leaf nodes
TestNodeIds == {1, 2}

\* the elements of a finite set of integers in ascending order
RECURSIVE Ascending(_)
Ascending(S) ==
    IF S = {} THEN <<>>
    ELSE LET m == CHOOSE x \in S : \A y \in S : x <= y
         IN <<m>> \o Ascending(S \ {m})

RECURSIVE Flatten(_)
Flatten(seqs) ==
    IF seqs = <<>> THEN <<>> ELSE Head(seqs) \o Flatten(Tail(seqs))

\* get_cluster_tree_nodes_needing_projection with limit=None: the
\* (node_id, page_id) rows of the pages that are assigned to a leaf node of
\* the namespace, have a reduced vector and have no 3-D vector yet
get_cluster_tree_nodes_needing_projection(tree, pv, t3, namespace) ==
    {<<pv[namespace][p].cluster_node_id, p>> : p \in
        {q \in PageIds :
            /\ pv[namespace][q].reduced_vector
            /\ t3[namespace][q].method = "NULL"
            /\ \E r \in tree : /\ r.namespace = namespace
                               /\ r.node_id = pv[namespace][q].cluster_node_id
                               /\ r.child_count = 0}}

\* update_three_d_vectors_in_batch: three_d_vector := vec for every
\* (page_id, vec) of the batch
update_three_d_vectors_in_batch(t3, namespace, db_batch) ==
    [t3 EXCEPT ![namespace] =
        [p \in PageIds |->
            IF \E i \in DOMAIN db_batch : db_batch[i][1] = p
            THEN LET i == CHOOSE j \in DOMAIN db_batch : db_batch[j][1] = p
                 IN db_batch[i][2]
            ELSE t3[namespace][p]]]

\* cluster_map: the rows grouped by node id, in row order
ClusterMap(rows) ==
    LET node_ids == Ascending({row[1] : row \in rows})
    IN [i \in DOMAIN node_ids |->
           [node_id |-> node_ids[i],
            page_ids |-> Ascending({row[2] : row \in
                                      {x \in rows : x[1] = node_ids[i]}})]]

\* "three_space_vectors[:, :vectors.shape[1]] = vectors[:, :n_components]"
\* on a zero matrix: the first n_components components of the vector
ZeroPad(x) ==
    [method |-> "zero_pad",
     val |-> [i \in 1..n_components |-> IF i <= Len(x) THEN x[i] ELSE 0]]

\* PCA(n_components).fit_transform raises ValueError unless
\* n_components <= min(n_samples, n_features)
PcaRaises(n_samples, n_features) ==
    n_components > Min(n_samples, n_features)

\* PCA(n_components).fit_transform: the vector is centred on the mean of the
\* cluster and then rotated onto the principal axes; kept as the centred
\* vector scaled by the number of samples, n * (x - mean)
PcaFitTransform(x, sum, n) ==
    [method |-> "pca", val |-> [i \in 1..n_components |-> n * x[i] - sum[i]]]

\* three_space_vectors of one cluster, one per page in page order
ThreeSpaceVectors(rv, namespace, page_ids) ==
    LET n == Len(page_ids)
        sum == VectorSum(rv, namespace, Range(page_ids))
    IN [i \in 1..n |->
           LET x == rv[namespace][page_ids[i]]
           IN IF Len(x) < n_components THEN ZeroPad(x)
              ELSE IF PcaRaises(n, Len(x)) THEN ZeroPad(x)
              ELSE PcaFitTransform(x, sum, n)]

\* _simple_geometric_projection: the fixed points for 2 and 3 points
SimpleGeometricProjection(n) ==
    IF n = 2 THEN << <<-1, 0, 0>>, <<1, 0, 0>> >>
    ELSE << <<-1, 0, 0>>, <<1, 0, 0>>, <<0, 1, 0>> >>

\* "db_batch = all_updates[:batch_size]"
DbBatch(all_updates, batch_size) ==
    SubSeq(all_updates, 1, Min(batch_size, Len(all_updates)))

\* variant: the slice that is kept starts one update too late
RestAfterFlush_SkipsOne(all_updates, db_batch) ==
    SubSeq(all_updates, Len(db_batch) + 2, Len(all_updates))

\* "all_updates = all_updates[len(db_batch):]"
RestAfterFlush(all_updates, db_batch) ==
    SubSeq(all_updates, Len(db_batch) + 1, Len(all_updates))

\* variant: the call itself is counted as a processed node
ProjectResult_CountsTheCall(processed) == processed + 1

\* "return processed"
ProjectResult(processed) == processed

\* every assigned page of the namespace has a 3-D vector
FullyProjected(pv, t3, namespace) ==
    \A p \in PageIds :
        pv[namespace][p].cluster_node_id # NULL => t3[namespace][p] # NoThreeD

\* a 3-D vector written by an earlier projection
EarlierThreeD == [method |-> "earlier_run", val |-> ZeroVec]

\* The store of the projector's tests: depth-0 leaf nodes inserted by hand,
\* the pages of namespace A assigned to them (or to none), some of the
\* assigned pages already projected.
InitProject ==
    /\ \E assign \in [PageIds -> TestNodeIds \cup {NULL}] :
       \E done \in SUBSET {p \in PageIds : assign[p] # NULL} :
          /\ cluster_tree =
                {ClusterTreeNode("A", n, NULL, 0,
                     Cardinality({p \in PageIds : assign[p] = n}), <<>>) :
                 n \in {assign[p] : p \in PageIds} \ {NULL}}
          /\ page_vector =
                [ns \in Namespaces |->
                   IF ns = "A"
                   THEN [p \in PageIds |-> [reduced_vector |-> TRUE,
                                            cluster_node_id |-> assign[p]]]
                   ELSE Pages(0)]
          /\ three_d_vector =
                [ns \in Namespaces |->
                   [p \in PageIds |->
                      IF ns = "A" /\ p \in done THEN EarlierThreeD
                      ELSE NoThreeD]]
    /\ stack = <<>>
    /\ ret = 0
    /\ pc = "idle"
    /\ args = [namespace |-> "A", leaf_target |-> 1, max_k |-> 1, max_depth |-> 0]
    /\ result = 0
    /\ alloc_log = <<>>
    /\ score_log = {}
    /\ assign_log = <<>>
    /\ embedding_vector = [ns \in Namespaces |-> [p \in PageIds |-> TRUE]]
    /\ reduced_value =
          [ns \in Namespaces |->
             [p \in PageIds |->
                IF page_vector[ns][p].reduced_vector THEN TestVector(p)
                ELSE ZeroVec]]
    /\ backfill = NoBackfill
    /\ proj = ProjIdle
    /\ pca = PcaIdle
    /\ writers = WritersIdle
    /\ lang = LangIdle
    /\ cache = CacheIdle

projectorUnchanged ==
    <<cluster_tree, page_vector, stack, ret, pc, args, result, alloc_log,
      score_log, assign_log, embedding_vector, reduced_value, backfill, pca,
      writers, lang, cache>>

\* run_pca_per_cluster up to the loop over cluster_map; a second call is
\* made once, after the first has returned
ProjectStart(namespace, batch_size) ==
    /\ \/ proj.at = "idle"
       \/ proj.at = "returned" /\ ~proj.rerun
    /\ LET rows == get_cluster_tree_nodes_needing_projection(
                       cluster_tree, page_vector, three_d_vector, namespace)
       IN proj' = [at |-> "loop", namespace |-> namespace,
                   batch_size |-> batch_size,
                   cluster_map |-> ClusterMap(rows),
                   all_updates |-> <<>>, processed |-> 0, result |-> 0,
                   rerun |-> proj.at = "returned",
                   rows |-> rows, flushes |-> <<>>,
                   fully_projected |->
                       FullyProjected(page_vector, three_d_vector, namespace),
                   three_d_at_start |-> three_d_vector]
    /\ UNCHANGED three_d_vector
    /\ UNCHANGED projectorUnchanged

\* one iteration of the loop up to "all_updates.extend(updates)"
ProjectCluster ==
    /\ proj.at = "loop" /\ proj.cluster_map # <<>>
    /\ LET batch == Head(proj.cluster_map)
           three_space_vectors ==
               ThreeSpaceVectors(reduced_value, proj.namespace, batch.page_ids)
           updates == [i \in DOMAIN batch.page_ids |->
                          <<batch.page_ids[i], three_space_vectors[i]>>]
       IN proj' = [proj EXCEPT !.at = "flush",
                               !.cluster_map = Tail(@),
                               !.all_updates = @ \o updates]
    /\ UNCHANGED three_d_vector
    /\ UNCHANGED projectorUnchanged

\* one iteration of "while len(all_updates) >= batch_size"
ProjectFlushInLoop ==
    /\ proj.at = "flush" /\ Len(proj.all_updates) >= proj.batch_size
    /\ LET db_batch == DbBatch(proj.all_updates, proj.batch_size)
       IN /\ three_d_vector' = update_three_d_vectors_in_batch(
                                   three_d_vector, proj.namespace, db_batch)
          /\ proj' = [proj EXCEPT
                         !.all_updates = RestAfterFlush(@, db_batch),
                         !.flushes = Append(@, db_batch)]
    /\ UNCHANGED projectorUnchanged

\* the end of the iteration: "processed += 1"
ProjectClusterDone ==
    /\ proj.at = "flush" /\ Len(proj.all_updates) < proj.batch_size
    /\ proj' = [proj EXCEPT !.at = "loop", !.processed = @ + 1]
    /\ UNCHANGED three_d_vector
    /\ UNCHANGED projectorUnchanged

\* the loop over cluster_map is exhausted
ProjectLoopExit ==
    /\ proj.at = "loop" /\ proj.cluster_map = <<>>
    /\ proj' = [proj EXCEPT !.at = "final"]
    /\ UNCHANGED three_d_vector
    /\ UNCHANGED projectorUnchanged

\* one iteration of the final "while len(all_updates) > 0"
ProjectFlushRest ==
    /\ proj.at = "final" /\ Len(proj.all_updates) > 0
    /\ LET db_batch == DbBatch(proj.all_updates, proj.batch_size)
       IN /\ three_d_vector' = update_three_d_vectors_in_batch(
                                   three_d_vector, proj.namespace, db_batch)
          /\ proj' = [proj EXCEPT
                         !.all_updates = RestAfterFlush(@, db_batch),
                         !.flushes = Append(@, db_batch)]
    /\ UNCHANGED projectorUnchanged

\* commit and "return processed"
ProjectReturn ==
    /\ proj.at = "final" /\ Len(proj.all_updates) = 0
    /\ proj' = [proj EXCEPT !.at = "returned",
                            !.result = ProjectResult(proj.processed)]
    /\ UNCHANGED three_d_vector
    /\ UNCHANGED projectorUnchanged

NextProject ==
    \/ \E namespace \in Namespaces, batch_size \in BatchSizes :
          ProjectStart(namespace, batch_size)
    \/ ProjectCluster
    \/ ProjectFlushInLoop
    \/ ProjectClusterDone
    \/ ProjectLoopExit
    \/ ProjectFlushRest
    \/ ProjectReturn

SpecProject == InitProject /\ [][NextProject]_vars

\* ================================================================= run_pca
\* values of target_dim and batch_size the reducer is called with
TargetDims == {1, 2}
PcaBatchSizes == {1, 2, 3}

\* outcomes of one ipca.partial_fit call
PartialFitOutcomes == {"fitted", "raised"}

Max(a, b) == IF a >= b THEN a ELSE b

\* "effective_batch_size = max(batch_size, target_dim)"
EffectiveBatchSize(batch_size, target_dim) == Max(batch_size, target_dim)

\* variant: the query has no "IS NOT NULL" condition
BatchIteratorRows_AllRows(ev, namespace) == Ascending(PageIds)

\* _batch_iterator's query: the page ids of the namespace whose
\* embedding_vector is not NULL, ORDER BY page_id ASC
BatchIteratorRows(ev, namespace) ==
    Ascending({p \in PageIds : ev[namespace][p]})

\* "rows = cursor.fetchmany(batch_size)"
FetchMany(rows, batch_size) == SubSeq(rows, 1, Min(batch_size, Len(rows)))

\* variant: the cursor loses one row after every fetch
AfterFetch_SkipsOne(rows, batch_size) ==
    SubSeq(rows, Min(batch_size, Len(rows)) + 2, Len(rows))

\* what the cursor still holds after the fetch
AfterFetch(rows, batch_size) ==
    SubSeq(rows, Min(batch_size, Len(rows)) + 1, Len(rows))

\* IncrementalPCA.partial_fit: the first call raises ValueError when the
\* batch has fewer samples than n_components; for a later call that depends
\* on the version of the library
PartialFitMay(outcome, first_call, n_samples, target_dim) ==
    IF n_samples >= target_dim THEN outcome = "fitted"
    ELSE IF first_call THEN outcome = "raised"
    ELSE TRUE

\* update_reduced_vectors_in_batch: reduced_vector := vector for every
\* (vector, page_id) of the batch
update_reduced_vectors_in_batch(pv, namespace, page_ids) ==
    [pv EXCEPT ![namespace] =
        [p \in PageIds |->
            IF p \in Range(page_ids)
            THEN [pv[namespace][p] EXCEPT !.reduced_vector = TRUE]
            ELSE pv[namespace][p]]]

\* variant: the two counters are returned in the other order
PcaResult_Swapped(batch_counter, total_vectors) ==
    <<total_vectors, batch_counter>>

\* "return batch_counter, total_vectors"
PcaResult(batch_counter, total_vectors) == <<batch_counter, total_vectors>>

\* The store of the reducer's tests: some pages of namespace A have an
\* embedding, no page has a reduced vector, there is no tree.
InitPca ==
    /\ \E with_embedding \in SUBSET PageIds :
          embedding_vector =
              [ns \in Namespaces |->
                 [p \in PageIds |-> ns = "A" /\ p \in with_embedding]]
    /\ cluster_tree = {}
    /\ page_vector = [ns \in Namespaces |-> Pages(0)]
    /\ reduced_value = [ns \in Namespaces |-> [p \in PageIds |-> ZeroVec]]
    /\ three_d_vector = [ns \in Namespaces |-> [p \in PageIds |-> NoThreeD]]
    /\ stack = <<>>
    /\ ret = 0
    /\ pc = "idle"
    /\ args = [namespace |-> "A", leaf_target |-> 1, max_k |-> 1, max_depth |-> 0]
    /\ result = 0
    /\ alloc_log = <<>>
    /\ score_log = {}
    /\ assign_log = <<>>
    /\ backfill = NoBackfill
    /\ proj = ProjIdle
    /\ pca = PcaIdle
    /\ writers = WritersIdle
    /\ lang = LangIdle
    /\ cache = CacheIdle

pcaUnchanged ==
    <<cluster_tree, stack, ret, pc, args, result, alloc_log, score_log,
      assign_log, embedding_vector, three_d_vector, backfill, proj,
      writers, lang, cache>>

\* run_pca up to the first pass
PcaStart(namespace, target_dim, batch_size) ==
    /\ pca.at = "idle"
    /\ pca' = [at |-> "fit", namespace |-> namespace,
               target_dim |-> target_dim, batch_size |-> batch_size,
               effective_batch_size |->
                   EffectiveBatchSize(batch_size, target_dim),
               cursor |-> BatchIteratorRows(embedding_vector, namespace),
               batch_counter |-> 0, total_vectors |-> 0,
               result |-> <<0, 0>>,
               fit_log |-> <<>>, transform_log |-> <<>>,
               write_log |-> <<>>]
    /\ UNCHANGED <<page_vector, reduced_value>>
    /\ UNCHANGED pcaUnchanged

\* one iteration of the first pass: fetch a batch and partial_fit it
PcaFitBatch(outcome) ==
    /\ pca.at = "fit" /\ pca.cursor # <<>>
    /\ LET batch == FetchMany(pca.cursor, pca.effective_batch_size)
       IN /\ PartialFitMay(outcome, pca.batch_counter = 0, Len(batch),
                           pca.target_dim)
          /\ IF outcome = "raised"
             THEN pca' = [pca EXCEPT !.at = "raised"]
             ELSE pca' = [pca EXCEPT
                     !.cursor = AfterFetch(@, pca.effective_batch_size),
                     !.batch_counter = @ + 1,
                     !.total_vectors = @ + Len(batch),
                     !.fit_log = Append(@, batch)]
    /\ UNCHANGED <<page_vector, reduced_value>>
    /\ UNCHANGED pcaUnchanged

\* the first pass is exhausted; the second pass opens its own cursor
PcaFitDone ==
    /\ pca.at = "fit" /\ pca.cursor = <<>>
    /\ pca' = [pca EXCEPT
                  !.at = "transform",
                  !.cursor = BatchIteratorRows(embedding_vector, pca.namespace)]
    /\ UNCHANGED <<page_vector, reduced_value>>
    /\ UNCHANGED pcaUnchanged

\* one iteration of the second pass: fetch, transform, write
PcaTransformBatch ==
    /\ pca.at = "transform" /\ pca.cursor # <<>>
    /\ LET batch == FetchMany(pca.cursor, pca.batch_size)
       IN /\ page_vector' = update_reduced_vectors_in_batch(
                                page_vector, pca.namespace, batch)
          /\ reduced_value' =
                [reduced_value EXCEPT ![pca.namespace] =
                    [p \in PageIds |->
                        IF p \in Range(batch) THEN TestVector(p) ELSE @[p]]]
          /\ pca' = [pca EXCEPT !.cursor = AfterFetch(@, pca.batch_size),
                                !.transform_log = Append(@, batch),
                                !.write_log = @ \o batch]
    /\ UNCHANGED pcaUnchanged

\* "return batch_counter, total_vectors"
PcaReturn ==
    /\ pca.at = "transform" /\ pca.cursor = <<>>
    /\ pca' = [pca EXCEPT
                  !.at = "returned",
                  !.result = PcaResult(pca.batch_counter, pca.total_vectors)]
    /\ UNCHANGED <<page_vector, reduced_value>>
    /\ UNCHANGED pcaUnchanged

NextPca ==
    \/ \E namespace \in Namespaces, target_dim \in TargetDims,
          batch_size \in PcaBatchSizes :
          PcaStart(namespace, target_dim, batch_size)
    \/ \E outcome \in PartialFitOutcomes : PcaFitBatch(outcome)
    \/ PcaFitDone
    \/ PcaTransformBatch
    \/ PcaReturn

SpecPca == InitPca /\ [][NextPca]_vars

\* ================================================== two interleaved builders
\* a store with no tree, no page and no call in progress
DataprepIdle ==
    /\ cluster_tree = {}
    /\ page_vector = [ns \in Namespaces |-> Pages(0)]
    /\ embedding_vector = [ns \in Namespaces |-> [p \in PageIds |-> FALSE]]
    /\ reduced_value = [ns \in Namespaces |-> [p \in PageIds |-> ZeroVec]]
    /\ three_d_vector = [ns \in Namespaces |-> [p \in PageIds |-> NoThreeD]]
    /\ stack = <<>>
    /\ ret = 0
    /\ pc = "idle"
    /\ args = [namespace |-> "A", leaf_target |-> 1, max_k |-> 1, max_depth |-> 0]
    /\ result = 0
    /\ alloc_log = <<>>
    /\ score_log = {}
    /\ assign_log = <<>>
    /\ backfill = NoBackfill
    /\ proj = ProjIdle
    /\ pca = PcaIdle

dataprepVars ==
    <<page_vector, stack, ret, pc, args, result, alloc_log, score_log,
      assign_log, embedding_vector, reduced_value, three_d_vector, backfill,
      proj, pca>>

\* the two processes that run run_recursive_clustering on the same store
WriterIds == {1, 2}

\* a builder about to allocate the id of its root
Writer(namespace) ==
    [namespace |-> namespace, at |-> "root_read", node_id |-> NULL,
     root_node_id |-> NULL]

\* the row a builder inserts: its root, or a child of its root
WriterNode(w) ==
    IF w.at = "root_insert"
    THEN ClusterTreeNode(w.namespace, w.node_id, NULL, 0, 2, <<>>)
    ELSE ClusterTreeNode(w.namespace, w.node_id, w.root_node_id, 1, 1, <<>>)

\* the unique key (namespace, node_id) of cluster_tree is already taken
KeyTaken(tree, node) ==
    \E r \in tree : r.namespace = node.namespace /\ r.node_id = node.node_id

\* Two builders start on an empty store, each on a namespace of its own
\* choice.
InitWriters ==
    /\ DataprepIdle
    /\ \E ns \in [WriterIds -> Namespaces] :
          writers = [at |-> "running",
                     proc |-> [w \in WriterIds |-> Writer(ns[w])],
                     events |-> <<>>]
    /\ lang = LangIdle
    /\ cache = CacheIdle

\* "root_node_id = get_cluster_tree_max_node_id(sqlconn) + 1" and the same
\* statement for a child: the read is a step of its own
WriterRead(w) ==
    /\ writers.at = "running"
    /\ writers.proc[w].at \in {"root_read", "child_read"}
    /\ LET me == writers.proc[w]
           node_id == NextNodeId(cluster_tree)
       IN writers' =
             [writers EXCEPT
                 !.proc[w] =
                     [me EXCEPT !.node_id = node_id,
                                !.at = IF me.at = "root_read"
                                       THEN "root_insert" ELSE "child_insert"],
                 !.events = Append(@, [writer |-> w, kind |-> "read",
                                       node_id |-> node_id])]
    /\ UNCHANGED <<cluster_tree, lang, cache>>
    /\ UNCHANGED dataprepVars

\* "insert_cluster_tree_node(sqlconn, node)": the insert, with the id read
\* before; it raises when the key is taken
WriterInsert(w) ==
    /\ writers.at = "running"
    /\ writers.proc[w].at \in {"root_insert", "child_insert"}
    /\ LET me == writers.proc[w]
           node == WriterNode(me)
           event == [writer |-> w, kind |-> "insert", node_id |-> me.node_id]
       IN IF KeyTaken(cluster_tree, node)
          THEN /\ writers' = [writers EXCEPT !.proc[w].at = "raised",
                                             !.events = Append(@, event)]
               /\ UNCHANGED cluster_tree
          ELSE /\ cluster_tree' = insert_cluster_tree_node(cluster_tree, node)
               /\ writers' =
                     [writers EXCEPT
                         !.proc[w] =
                             IF me.at = "root_insert"
                             THEN [me EXCEPT !.at = "child_read",
                                             !.root_node_id = me.node_id]
                             ELSE [me EXCEPT !.at = "done"],
                         !.events = Append(@, event)]
    /\ UNCHANGED <<lang, cache>>
    /\ UNCHANGED dataprepVars

NextWriters ==
    \/ \E w \in WriterIds : WriterRead(w)
    \/ \E w \in WriterIds : WriterInsert(w)

SpecWriters == InitWriters /\ [][NextWriters]_vars

\* ============================================================ languages.py
\* the threads of the concurrent-initialization test
LangThreads == {1, 2, 3}

\* one LanguageInfo per row of the CSV file, keyed by its namespace
LanguageInfo(namespace) ==
    [namespace |-> namespace, language |-> <<"language of", namespace>>]

\* the rows of the file, in file order
FileRows == <<LanguageInfo("A"), LanguageInfo("B")>>

\* "if namespace_to_lang_info_dict:" -- a dict is true when it is not empty
DictIsLoaded(table) == table # {}

\* variant: the test under the lock always finds the table missing
NeedsLoadUnderLock_Always(table) == TRUE

\* "if not namespace_to_lang_info_dict:" under the lock
NeedsLoadUnderLock(table) == ~DictIsLoaded(table)

\* namespace_to_lang_info_dict[namespace]: the entries with that key
DictGet(table, namespace) == {e \in table : e.namespace = namespace}

LangThread == [at |-> "idle", namespace |-> "A", lang_dict |-> {},
               result |-> {}, found_loaded_under_lock |-> FALSE]

\* The module is imported, the table is empty and no thread has called yet.
InitLanguages ==
    /\ DataprepIdle
    /\ writers = WritersIdle
    /\ cache = CacheIdle
    /\ lang = [at |-> "running", table |-> {}, lock |-> NULL, loads |-> 0,
               threads |-> [t \in LangThreads |-> LangThread]]

langUnchanged == <<cluster_tree, dataprepVars, writers, cache>>

SetThread(t, thread) == [lang EXCEPT !.threads[t] = thread]

\* a thread calls get_language_info_for_namespace(namespace)
LangCall(t, namespace) ==
    /\ lang.at = "running" /\ lang.threads[t].at = "idle"
    /\ lang' = SetThread(t, [lang.threads[t] EXCEPT !.at = "first_check",
                                                     !.namespace = namespace])
    /\ UNCHANGED langUnchanged

\* the test outside the lock: return the entry when the table is loaded
LangFirstCheck(t) ==
    /\ lang.at = "running" /\ lang.threads[t].at = "first_check"
    /\ LET me == lang.threads[t]
       IN IF DictIsLoaded(lang.table)
          THEN IF DictGet(lang.table, me.namespace) = {}
               THEN lang' = SetThread(t, [me EXCEPT !.at = "raised"])
               ELSE lang' = SetThread(t,
                       [me EXCEPT !.at = "returned",
                                  !.result = DictGet(lang.table, me.namespace)])
          ELSE lang' = SetThread(t, [me EXCEPT !.at = "acquire"])
    /\ UNCHANGED langUnchanged

\* "with _dict_init_lock:" -- enter when the lock is free
LangAcquire(t) ==
    /\ lang.at = "running" /\ lang.threads[t].at = "acquire"
    /\ lang.lock = NULL
    /\ lang' = [SetThread(t, [lang.threads[t] EXCEPT !.at = "second_check"])
                   EXCEPT !.lock = t]
    /\ UNCHANGED langUnchanged

\* the test under the lock: start load_languages_from_csv or skip it
LangSecondCheck(t) ==
    /\ lang.at = "running" /\ lang.threads[t].at = "second_check"
    /\ LET me == lang.threads[t]
       IN IF NeedsLoadUnderLock(lang.table)
          THEN lang' = [SetThread(t, [me EXCEPT !.at = "loading",
                                                !.lang_dict = {}])
                           EXCEPT !.loads = @ + 1]
          ELSE lang' = SetThread(t,
                  [me EXCEPT !.at = "release",
                             !.found_loaded_under_lock = TRUE])
    /\ UNCHANGED langUnchanged

\* load_languages_from_csv: one row of the file goes into the local dict
LangLoadRow(t) ==
    /\ lang.at = "running" /\ lang.threads[t].at = "loading"
    /\ LET me == lang.threads[t]
           n == Cardinality(me.lang_dict)
       IN /\ n < Len(FileRows)
          /\ lang' = SetThread(t,
                [me EXCEPT !.lang_dict = @ \cup {FileRows[n + 1]}])
    /\ UNCHANGED langUnchanged

\* "namespace_to_lang_info_dict = load_languages_from_csv(...)": the
\* returned dict is bound to the global name
LangAssign(t) ==
    /\ lang.at = "running" /\ lang.threads[t].at = "loading"
    /\ Cardinality(lang.threads[t].lang_dict) = Len(FileRows)
    /\ lang' = [SetThread(t, [lang.threads[t] EXCEPT !.at = "release"])
                   EXCEPT !.table = lang.threads[t].lang_dict]
    /\ UNCHANGED langUnchanged

\* the end of the with block
LangRelease(t) ==
    /\ lang.at = "running" /\ lang.threads[t].at = "release"
    /\ lang' = [SetThread(t, [lang.threads[t] EXCEPT !.at = "lookup"])
                   EXCEPT !.lock = NULL]
    /\ UNCHANGED langUnchanged

\* "return namespace_to_lang_info_dict[namespace]"
LangLookup(t) ==
    /\ lang.at = "running" /\ lang.threads[t].at = "lookup"
    /\ LET me == lang.threads[t]
       IN IF DictGet(lang.table, me.namespace) = {}
          THEN lang' = SetThread(t, [me EXCEPT !.at = "raised"])
          ELSE lang' = SetThread(t,
                  [me EXCEPT !.at = "returned",
                             !.result = DictGet(lang.table, me.namespace)])
    /\ UNCHANGED langUnchanged

NextLanguages ==
    \/ \E t \in LangThreads, namespace \in Namespaces : LangCall(t, namespace)
    \/ \E t \in LangThreads : LangFirstCheck(t)
    \/ \E t \in LangThreads : LangAcquire(t)
    \/ \E t \in LangThreads : LangSecondCheck(t)
    \/ \E t \in LangThreads : LangLoadRow(t)
    \/ \E t \in LangThreads : LangAssign(t)
    \/ \E t \in LangThreads : LangRelease(t)
    \/ \E t \in LangThreads : LangLookup(t)

SpecLanguages == InitLanguages /\ [][NextLanguages]_vars

\* ================================================================ cache.py
\* the clock runs from 0 to MaxTime seconds
MaxTime == 4

\* values of CACHE_TTL_SECONDS, and of the decorator's ttl (NULL for None)
ConfigTtls == {1, 2, 3}
DecoratorTtls == ConfigTtls \cup {NULL}

\* cache keys of the wrapped function: (prefix, args, kwargs)
CacheKeys == {"k1", "k2"}

\* TTLCache(maxsize, ttl).__setitem__: the entry expires ttl seconds after
\* it is stored; the decorator's own ttl is not passed to the cache
ExpiresAt(now, cache_ttl, decorator_ttl) == now + cache_ttl

\* TTLCache.__getitem__: an entry is served while the clock is before its
\* expiry time
IsServed(entries, key, now) ==
    \E e \in entries : e.key = key /\ now < e.expires

\* The module is imported: no cache yet; the function is decorated with
\* async_cache(ttl=decorator_ttl) and the configuration holds config_ttl.
InitCache ==
    /\ DataprepIdle
    /\ writers = WritersIdle
    /\ lang = LangIdle
    /\ \E config_ttl \in ConfigTtls, decorator_ttl \in DecoratorTtls :
          cache = [at |-> "running", now |-> 0, created |-> FALSE,
                   cache_ttl |-> NULL, config_ttl |-> config_ttl,
                   decorator_ttl |-> decorator_ttl, entries |-> {},
                   lookup |-> [key |-> "k1", time |-> 0, hit |-> FALSE,
                               stored_at |-> {}]]

cacheUnchanged == <<cluster_tree, dataprepVars, writers, lang>>

\* one second passes
CacheTick ==
    /\ cache.at = "running" /\ cache.now < MaxTime
    /\ cache' = [cache EXCEPT !.now = @ + 1]
    /\ UNCHANGED cacheUnchanged

\* wrapper(*args): get_cache(), look the key up, on a miss call the
\* function and store its result
CacheCall(key) ==
    /\ cache.at = "running"
    /\ LET cache_ttl == IF cache.created THEN cache.cache_ttl
                        ELSE cache.config_ttl
           hit == IsServed(cache.entries, key, cache.now)
           stored == {e \in cache.entries : e.key = key}
           lookup == [key |-> key, time |-> cache.now, hit |-> hit,
                      stored_at |-> {e.stored_at : e \in stored}]
       IN cache' =
             [cache EXCEPT
                 !.created = TRUE,
                 !.cache_ttl = cache_ttl,
                 !.lookup = lookup,
                 !.entries =
                     IF hit THEN @
                     ELSE (@ \ stored) \cup
                          {[key |-> key, stored_at |-> cache.now,
                            expires |-> ExpiresAt(cache.now, cache_ttl,
                                                  cache.decorator_ttl)]}]
    /\ UNCHANGED cacheUnchanged

NextCache ==
    \/ CacheTick
    \/ \E key \in CacheKeys : CacheCall(key)

SpecCache == InitCache /\ [][NextCache]_vars

\* ===================================================== derived notions
\* ids of the nodes the run inserted, in creation order
Created == [i \in DOMAIN alloc_log |-> alloc_log[i].allocated]

\* rows of the tree the run built
TreeRows ==
    {r \in cluster_tree :
        r.namespace = args.namespace /\ r.node_id \in Range(Created)}

\* persisted children of a row
ChildRows(r) ==
    {c \in cluster_tree : c.namespace = r.namespace /\ c.parent_id = r.node_id}

Leaves == {r \in TreeRows : ChildRows(r) = {}}

RECURSIVE SumDocCount(_)
SumDocCount(rows) ==
    IF rows = {} THEN 0
    ELSE LET r == CHOOSE x \in rows : TRUE
         IN r.doc_count + SumDocCount(rows \ {r})

\* pages of a namespace that have a reduced vector
DocsWithVectors(namespace) ==
    {p \in PageIds : page_vector[namespace][p].reduced_vector}

NumDocs == Cardinality(DocsWithVectors(args.namespace))

\* the run returned after inserting a root (its precondition was met)
Completed == pc = "done" /\ alloc_log # <<>>

\* node ids whose quality score was computed / was below threshold / raised
Scored(outcome) == {e[1] : e \in {x \in score_log : x[2] = outcome}}

RowsOf(node_id) ==
    {r \in cluster_tree : r.namespace = args.namespace /\ r.node_id = node_id}

\* ================================================================ claims

\* C1: after a completed run every page of the namespace that has a reduced
\* vector is assigned to a node that is a leaf of the tree just built, and
\* the doc_count values of the leaves sum to the number of such pages.
C1_EveryDocAssignedToALeaf ==
    Completed =>
        /\ \A p \in DocsWithVectors(args.namespace) :
              \E r \in Leaves :
                 r.node_id = page_vector[args.namespace][p].cluster_node_id
        /\ SumDocCount(Leaves) = NumDocs

\* C2: a node whose quality score could not be computed is treated as a
\* leaf: no child node is created under it and its child_count stays 0.
C2_ScoreFailureMakesLeaf ==
    \A id \in Scored("fail") :
        \A r \in RowsOf(id) : ChildRows(r) = {} /\ r.child_count = 0

\* C3: after a completed run every node with child_count > 0 has a centroid,
\* so compute_missing_centroids on the built tree does not raise.
C3_LeafOnlyInvariantKept ==
    pc = "done" =>
        /\ \A r \in cluster_tree : r.child_count > 0 => r.centroid # NoCentroid
        /\ AssumptionViolations(cluster_tree, args.namespace) = {}

\* C4: every node that was clustered has its centroid persisted, whatever
\* the outcome of the quality score.
C4_CentroidPersistedForEveryOutcome ==
    \A e \in {x \in score_log : x[2] \in SilhouetteOutcomes} :
        \A r \in RowsOf(e[1]) : r.centroid # NoCentroid

\* C5: the run returns the number of nodes it created (root and descendants).
C5_ReturnsNumberOfNodesCreated ==
    pc = "done" => result = Len(alloc_log)

\* C6: in every state of a run (hence in any partial tree) an assignment
\* has been written only for nodes whose call has returned and that have no
\* children and child_count 0, so no node that has or later receives
\* children ever holds an assignment; and no page is written twice in a run.
C6_AssignmentsOnlyToFinalLeaves ==
    /\ \A i \in DOMAIN assign_log :
          /\ \A j \in DOMAIN stack : stack[j].node_id # assign_log[i].node_id
          /\ \A r \in RowsOf(assign_log[i].node_id) :
                ChildRows(r) = {} /\ r.child_count = 0
    /\ \A i, j \in DOMAIN assign_log :
          i # j => Range(assign_log[i].page_ids)
                      \cap Range(assign_log[j].page_ids) = {}
    /\ \A ns \in Namespaces : \A p \in PageIds :
          page_vector[ns][p].cluster_node_id # NULL =>
             \A r \in cluster_tree :
                (r.namespace = ns
                   /\ r.node_id = page_vector[ns][p].cluster_node_id)
                => ChildRows(r) = {} /\ r.child_count = 0

\* C6 witness: a run in progress that has written the assignments of a leaf
\* while another child of the same tree has children of its own.
C6_Witness ==
    /\ pc = "running"
    /\ assign_log # <<>>
    /\ \E r \in TreeRows : r.parent_id # NULL /\ ChildRows(r) # {}

\* C7: after a completed run child_count of every node equals the number of
\* persisted rows whose parent_id is that node.
C7_ChildCountMatchesChildren ==
    pc = "done" =>
        \A r \in cluster_tree : r.child_count = Cardinality(ChildRows(r))

\* C7 witness: a completed run with a split node that was clustered into k
\* sub-clusters and has fewer than k children.
C7_Witness ==
    /\ pc = "done"
    /\ \E r \in TreeRows :
          /\ r.child_count >= 1
          /\ r.centroid # NoCentroid
          /\ r.child_count < r.centroid.n

\* C8: every node id the run allocates is max(node_id over the store) + 1
\* at insertion time and equals the inserted id; ids are strictly increasing
\* in creation order, above every id already in the store, and unique over
\* all namespaces.
C8_NodeIdsAreMaxPlusOne ==
    /\ \A i \in DOMAIN alloc_log :
          /\ alloc_log[i].allocated = alloc_log[i].max_before + 1
          /\ alloc_log[i].inserted = alloc_log[i].allocated
    /\ \A i, j \in DOMAIN alloc_log :
          i < j => alloc_log[i].allocated < alloc_log[j].allocated
    /\ \A r \in cluster_tree :
          r.node_id \notin Range(Created) =>
             \A i \in DOMAIN alloc_log : r.node_id < alloc_log[i].allocated
    /\ \A r1, r2 \in cluster_tree : r1.node_id = r2.node_id => r1 = r2

\* C8 witness: a run on namespace A that created three nodes in a store
\* that already held the tree of namespace B.
C8_Witness ==
    /\ pc = "done"
    /\ args.namespace = "A"
    /\ Len(alloc_log) >= 3
    /\ \E r \in cluster_tree : r.namespace = "B"

\* the single-node tree of C9: the root only, a leaf at depth 0
OnlyRootLeaf ==
    /\ Len(alloc_log) = 1
    /\ \A r \in TreeRows :
          /\ r.parent_id = NULL /\ r.depth = 0
          /\ r.doc_count = NumDocs
          /\ r.child_count = 0 /\ ChildRows(r) = {}
    /\ Cardinality(TreeRows) = 1

\* C9 as stated: a namespace with at least one and at most leaf_target
\* pages with reduced vectors gets exactly one node, the root as a leaf,
\* whatever max_k is.
C9_SmallNamespaceGetsRootLeaf ==
    (pc = "done" /\ NumDocs >= 1 /\ NumDocs <= args.leaf_target)
        => OnlyRootLeaf

\* C9 amended: a namespace with at least one, at least max_k and at most
\* leaf_target pages with reduced vectors gets exactly one node, the root,
\* a leaf of depth 0 with doc_count equal to the number of pages.
C9_SmallNamespaceAboveMaxKGetsRootLeaf ==
    (pc = "done" /\ NumDocs >= 1 /\ NumDocs >= args.max_k
                 /\ NumDocs <= args.leaf_target)
        => OnlyRootLeaf

\* C9 witness: two pages, leaf_target = 2, max_k = 2: one node was built.
C9_Witness ==
    /\ pc = "done"
    /\ NumDocs = 2 /\ args.leaf_target = 2 /\ args.max_k = 2
    /\ OnlyRootLeaf

\* C10: a run_recursive_clustering call on a namespace with fewer pages
\* with reduced vectors than max_k returns 0 at once and leaves both tables
\* unchanged.
C10_TooFewDocsIsNoOp ==
    [][(pc = "idle" /\ pc' # "idle" /\ backfill' = backfill
          /\ Cardinality(DocsWithVectors(args'.namespace)) < args'.max_k)
        => (pc' = "done" /\ result' = 0
              /\ cluster_tree' = cluster_tree /\ page_vector' = page_vector
              /\ alloc_log' = alloc_log /\ assign_log' = assign_log
              /\ score_log' = score_log)]_vars

\* C10 witness: a call with one page and max_k = 2 has returned 0.
C10_Witness ==
    /\ pc = "done"
    /\ NumDocs = 1 /\ args.max_k = 2
    /\ result = 0 /\ alloc_log = <<>>

\* C11 as stated: after a completed run every leaf of the tree has
\* doc_count <= leaf_target or depth = max_depth, whatever the clustering
\* and the quality scores were.
C11_LeavesSmallOrAtMaxDepth ==
    Completed =>
        \A r \in Leaves :
            r.doc_count <= args.leaf_target \/ r.depth = args.max_depth

\* C11 amended: after a completed run every leaf of the tree has
\* doc_count <= leaf_target, or depth = max_depth, or could not be split
\* (k <= 1), or was scored below the silhouette threshold.
C11_LeavesSmallDeepUnsplittableOrLowQuality ==
    Completed =>
        \A r \in Leaves :
            \/ r.doc_count <= args.leaf_target
            \/ r.depth = args.max_depth
            \/ ComputeK(r.doc_count, args.leaf_target, args.max_k) <= 1
            \/ r.node_id \in Scored("low")

\* C11 witness: a completed run with a leaf above leaf_target and above
\* max_depth that was scored below the threshold.
C11_Witness ==
    /\ Completed
    /\ \E r \in Leaves :
          /\ r.doc_count > args.leaf_target
          /\ r.depth < args.max_depth
          /\ r.node_id \in Scored("low")

\* C12: a store failure inside the run reaches the caller: once the write
\* of a node's centroid has raised, the run has raised.
C12_StoreFailurePropagates ==
    \A e \in score_log : e[2] = "update_raised" => pc = "raised"

\* a compute_missing_centroids call happens in this step
BackfillStep == backfill.at = "idle" /\ backfill'.at # "idle"

\* centroid-missing rows of the namespace the backfill is called for
MissingRows(namespace) ==
    {r \in cluster_tree : r.namespace = namespace /\ r.centroid = NoCentroid}

\* pages assigned to the node that have a reduced vector
Members(namespace, node_id) ==
    {p \in PageIds : /\ page_vector[namespace][p].cluster_node_id = node_id
                     /\ page_vector[namespace][p].reduced_vector}

\* C13: whenever some centroid-missing node of the namespace has
\* child_count > 0, compute_missing_centroids raises an error that names such
\* a node, and writes nothing: the store is the same after the call, also
\* for the valid centroid-missing leaves of the namespace.
C13_BackfillRaisesAndWritesNothing ==
    [][BackfillStep =>
          LET ns == backfill'.namespace
              offending == {r \in MissingRows(ns) : r.child_count > 0}
          IN offending # {} =>
                /\ backfill'.at = "raised"
                /\ backfill'.error_node \in {r.node_id : r \in offending}
                /\ cluster_tree' = cluster_tree
                /\ page_vector' = page_vector]_vars

\* C13 witness: the backfill raised on a tree that also holds a
\* centroid-missing leaf with member vectors, which still has no centroid.
C13_Witness ==
    /\ backfill.at = "raised"
    /\ \E r \in MissingRows(backfill.namespace) :
          /\ r.child_count = 0
          /\ Members(backfill.namespace, r.node_id) # {}
          /\ r.node_id # backfill.error_node

\* C14: when no centroid-missing node has children, the backfill gives
\* every centroid-missing node with at least one member vector the mean of
\* exactly its own members' vectors, leaves the other centroid-missing nodes
\* and all other rows as they were, does not raise, and returns the number
\* of nodes that received a centroid.
C14_BackfillComputesMeanOfOwnMembers ==
    [][BackfillStep =>
          LET ns == backfill'.namespace
              missing == MissingRows(ns)
              filled == {r \in missing : Members(ns, r.node_id) # {}}
          IN (\A r \in missing : r.child_count = 0) =>
                /\ backfill'.at = "returned"
                /\ backfill'.centroids_computed = Cardinality(filled)
                /\ cluster_tree' =
                      (cluster_tree \ filled) \cup
                      {[r EXCEPT !.centroid =
                            MemberMean(reduced_value, ns,
                                       Members(ns, r.node_id))] : r \in filled}
                /\ page_vector' = page_vector]_vars

\* C14 witness: a backfill that returned after computing a centroid from two
\* member vectors and skipping a node without member vectors.
C14_Witness ==
    /\ backfill.at = "returned"
    /\ backfill.centroids_computed >= 1
    /\ \E r \in cluster_tree :
          /\ r.namespace = backfill.namespace
          /\ r.centroid = MemberMean(reduced_value, r.namespace,
                                     Members(r.namespace, r.node_id))
          /\ r.centroid.n >= 2
    /\ \E r \in MissingRows(backfill.namespace) :
          Members(backfill.namespace, r.node_id) = {}

\* ------------------------------------------------------ run_pca_per_cluster
\* the clusters the call selected, as grouped at its start
SelectedClusters == Range(ClusterMap(proj.rows))

\* the node's whole membership was selected
WholeLeaf(c) ==
    \E r \in cluster_tree : /\ r.namespace = proj.namespace
                            /\ r.node_id = c.node_id
                            /\ r.doc_count = Len(c.page_ids)

\* the stored 3-D vector is the given point; the output of a PCA is centred
\* on the origin, which the fixed points of 2 or 3 documents are not
IsAt(t, point) == t.method # "pca" /\ t.val = point

\* C15: a leaf cluster of exactly 2 documents is placed at (-1,0,0) and
\* (1,0,0), one of exactly 3 documents at (-1,0,0), (1,0,0) and (0,1,0),
\* whatever the documents' vectors are.
C15_SmallClustersAtFixedPoints ==
    (proj.at = "returned" /\ ~proj.rerun) =>
        \A c \in SelectedClusters :
            (WholeLeaf(c) /\ Len(c.page_ids) \in {2, 3}) =>
                \A i \in DOMAIN c.page_ids :
                    IsAt(three_d_vector[proj.namespace][c.page_ids[i]],
                         SimpleGeometricProjection(Len(c.page_ids))[i])

\* all updates written so far, in write order
Flushed == Flatten(proj.flushes)

C17_RerunProcessesNothing ==
    (proj.at # "idle" /\ proj.fully_projected) =>
        /\ proj.processed = 0
        /\ proj.flushes = <<>>
        /\ three_d_vector = proj.three_d_at_start
        /\ proj.at = "returned" => proj.result = 0

\* C17 witness: the second call returned, on a namespace whose documents
\* the first call had projected.
C17_Witness ==
    /\ proj.at = "returned" /\ proj.rerun /\ proj.fully_projected
    /\ \E p \in PageIds :
          three_d_vector[proj.namespace][p].method \in {"pca", "zero_pad"}

\* ------------------------------------------------------------------ run_pca
\* pages of the namespace the reducer was called for that have an embedding
WithEmbedding == {p \in PageIds : embedding_vector[pca.namespace][p]}

\* pages of that namespace that have a reduced vector
WithReducedVector ==
    {p \in PageIds : page_vector[pca.namespace][p].reduced_vector}

\* C18: no reduced vector is written before the fit pass has consumed every
\* embedding batch of the namespace, and when the call returns every
\* document that has an embedding has had exactly one reduced vector
\* written (and no other document has).
C18_TransformOnlyAfterWholeFit ==
    pca.at # "idle" =>
        /\ (pca.write_log # <<>> \/ WithReducedVector # {}) =>
              /\ pca.at \in {"transform", "returned"}
              /\ Range(Flatten(pca.fit_log)) = WithEmbedding
        /\ pca.at = "returned" =>
              /\ Range(pca.write_log) = WithEmbedding
              /\ Len(pca.write_log) = Cardinality(WithEmbedding)
              /\ WithReducedVector = WithEmbedding

\* C18 witness: a call that returned after a fit pass of two batches and a
\* transform pass that wrote three documents.
C18_Witness ==
    /\ pca.at = "returned"
    /\ Len(pca.fit_log) = 2
    /\ Len(pca.write_log) = 3

\* C19: whenever the corpus holds at least target_dim documents, no fit
\* update is made from fewer than target_dim documents.
C19_NoFitUpdateBelowTargetDim ==
    (pca.at # "idle" /\ Cardinality(WithEmbedding) >= pca.target_dim) =>
        \A i \in DOMAIN pca.fit_log : Len(pca.fit_log[i]) >= pca.target_dim

\* C20: the call returns (batch_count, total_vectors) with total_vectors the
\* number of documents of the namespace that have an embedding and
\* batch_count = ceil(total_vectors / max(batch_size, target_dim)); for an
\* empty corpus it does not raise, returns (0, 0) and writes nothing.
C20_ReturnsBatchCountAndTotal ==
    LET total == Cardinality(WithEmbedding)
    IN pca.at # "idle" =>
          /\ pca.at = "returned" =>
                pca.result =
                    <<Ceil(total, Max(pca.batch_size, pca.target_dim)), total>>
          /\ total = 0 =>
                /\ pca.at # "raised"
                /\ pca.write_log = <<>>
                /\ WithReducedVector = {}
                /\ pca.at = "returned" => pca.result = <<0, 0>>

\* C20 witness: a call that returned (2, 3) with batch_size < target_dim.
C20_Witness ==
    /\ pca.at = "returned"
    /\ pca.batch_size < pca.target_dim
    /\ pca.result = <<2, 3>>

\* ---------------------------------------------------------- _batch_iterator
\* the batches have the given size, except a shorter, non-empty last one
WellSizedBatches(batches, batch_size) ==
    \A i \in DOMAIN batches :
        /\ Len(batches[i]) >= 1
        /\ Len(batches[i]) <= batch_size
        /\ i < Len(batches) => Len(batches[i]) = batch_size

IsPrefix(a, b) ==
    /\ Len(a) <= Len(b)
    /\ \A i \in DOMAIN a : a[i] = b[i]

\* C21: every iteration of the batch reader yields the pages of the
\* namespace whose embedding is not NULL exactly once, in ascending page-id
\* order across batches, in batches of exactly the requested size except a
\* shorter, never empty, last one; the second iteration of a call yields
\* the same pages in the same order as the first, and the same batches when
\* it asks for the same size.
C21_BatchesAreOrderedCompleteAndRestartable ==
    pca.at # "idle" =>
        LET rows == Ascending(WithEmbedding)
            first == Flatten(pca.fit_log)
            second == Flatten(pca.transform_log)
        IN /\ WellSizedBatches(pca.fit_log, pca.effective_batch_size)
           /\ WellSizedBatches(pca.transform_log, pca.batch_size)
           /\ IsPrefix(first, rows)
           /\ IsPrefix(second, rows)
           /\ pca.at \in {"transform", "returned"} => first = rows
           /\ pca.at = "returned" =>
                 /\ second = rows
                 /\ pca.effective_batch_size = pca.batch_size =>
                       pca.transform_log = pca.fit_log

\* C21 witness: a call that returned after two iterations with the same
\* batch size, each of a full batch and a shorter last one.
C21_Witness ==
    /\ pca.at = "returned"
    /\ pca.effective_batch_size = pca.batch_size
    /\ Len(pca.transform_log) = 2
    /\ Len(pca.transform_log[2]) < pca.batch_size
    /\ pca.fit_log = pca.transform_log

\* C22: in the tree a run builds, the root (the node created first) has
\* depth 0 and no parent, and every other node has a parent in the tree
\* whose depth is one less than its own.
C22_DepthIsParentDepthPlusOne ==
    \A r \in TreeRows :
        IF r.node_id = Created[1]
        THEN r.depth = 0 /\ r.parent_id = NULL
        ELSE \E parent \in TreeRows : /\ parent.node_id = r.parent_id
                                     /\ r.depth = parent.depth + 1

\* C22 witness: a completed run whose tree has a node at depth 2.
C22_Witness ==
    /\ Completed
    /\ \E r \in TreeRows : r.depth = 2

\* C26: a call of _recursive_cluster_node returns exactly 1 if and only if
\* the node it processed has no child when it returns; a node with at least
\* one child returns more than 1.
C26_ReturnsOneIffLeaf ==
    [][(pc = "running" /\ pc' = "running" /\ Len(stack') < Len(stack)) =>
          LET created_child ==
                  \E r \in cluster_tree' : /\ r.namespace = args.namespace
                                           /\ r.parent_id = Top.node_id
          IN /\ ret' = 1 <=> ~created_child
             /\ created_child => ret' > 1]_vars

\* C26 witness: a completed run in which a node was split into a single
\* child, which is a leaf.
C26_Witness ==
    /\ Completed
    /\ \E r \in TreeRows :
          /\ Cardinality(ChildRows(r)) = 1
          /\ \A c \in ChildRows(r) : ChildRows(c) = {}

\* C27: no node of the tree is ever deeper than max_depth, and every run
\* that has started returns (or raises), also when a clustering puts all
\* documents of a node into one sub-cluster.
C27_TerminatesWithinMaxDepth ==
    /\ [](\A r \in TreeRows : r.depth <= args.max_depth)
    /\ (pc = "running") ~> (pc \in {"done", "raised"})

\* C27 witness: a completed run with a node at depth max_depth that holds
\* as many documents as its parent.
C27_Witness ==
    /\ Completed
    /\ \E r \in TreeRows :
          /\ r.depth = args.max_depth
          /\ \E parent \in TreeRows : /\ parent.node_id = r.parent_id
                                     /\ parent.doc_count = r.doc_count
                                     /\ r.doc_count > args.leaf_target

\* C28: when a split node has finished its loop, its children are the
\* non-empty sub-clusters: between 1 and k of them, each with
\* doc_count >= 1 documents, their document sets pairwise disjoint and
\* together the node's documents, their doc_counts summing to the node's.
C28_ChildrenPartitionTheNode ==
    [][(pc = "running" /\ stack # <<>> /\ Top.at = "loop"
          /\ Len(stack') < Len(stack) /\ pc' = "running") =>
          LET children ==
                  {r \in cluster_tree' : /\ r.namespace = args.namespace
                                         /\ r.parent_id = Top.node_id}
              docs(r) == Range(r.sample_doc_ids)
          IN /\ Cardinality(children) >= 1
             /\ Cardinality(children) <=
                    Min(args.max_k, Ceil(Top.doc_count, args.leaf_target))
             /\ \A c \in children :
                   c.doc_count >= 1 /\ c.doc_count = Cardinality(docs(c))
             /\ \A c, d \in children : c # d => docs(c) \cap docs(d) = {}
             /\ UNION {docs(c) : c \in children} = Range(Top.page_ids)
             /\ SumDocCount(children) = Top.doc_count]_vars

\* C28 witness: a completed run in which a node with three documents was
\* split with k = 3 into two children, one sub-cluster being empty.
C28_Witness ==
    /\ Completed
    /\ \E r \in TreeRows :
          /\ r.doc_count = 3
          /\ ComputeK(r.doc_count, args.leaf_target, args.max_k) = 3
          /\ Cardinality(ChildRows(r)) = 2

\* root rows of a namespace: the rows the serving layer's lookup
\* "WHERE namespace = ? AND parent_id IS NULL" matches
RootRows(namespace) ==
    {r \in cluster_tree : r.namespace = namespace /\ r.parent_id = NULL}

\* C29: after a completed run, also one on a namespace that an earlier run
\* has built a tree for, the namespace has exactly one root row.
C29_ExactlyOneRootPerNamespace ==
    Completed => Cardinality(RootRows(args.namespace)) = 1

\* C30: no step of a run on one namespace changes a cluster_tree row or a
\* page assignment of another namespace; the centroid update, which
\* selects the row by node_id alone, changes no row of another namespace
\* either.
C30_OtherNamespacesUntouched ==
    [][backfill' = backfill =>
          \A ns \in Namespaces \ {args'.namespace} :
              /\ {r \in cluster_tree' : r.namespace = ns} =
                     {r \in cluster_tree : r.namespace = ns}
              /\ page_vector'[ns] = page_vector[ns]]_vars

\* C30 witness: a completed run on A that wrote a centroid and page
\* assignments while the store held the tree of B.
C30_Witness ==
    /\ Completed
    /\ args.namespace = "A"
    /\ EarlierTreeOfB \subseteq cluster_tree
    /\ \E r \in TreeRows : r.centroid # NoCentroid
    /\ assign_log # <<>>

\* ---------------------------------------------------- interleaved builders
\* the read that produced the id of the insert at position j
ReadOf(j) ==
    CHOOSE h \in 1..(j - 1) :
        /\ writers.events[h].writer = writers.events[j].writer
        /\ writers.events[h].kind = "read"
        /\ \A g \in (h + 1)..(j - 1) :
              writers.events[g].writer # writers.events[j].writer

\* C23: two inserts carry the same node id only when they come from
\* different builders and the later builder read max(node_id) before the
\* earlier one inserted; a builder alone never repeats an id, two
\* interleaved builders can.
C23_SameIdOnlyWhenReadsInterleave ==
    writers.at # "idle" =>
        \A i, j \in DOMAIN writers.events :
            (/\ i < j
             /\ writers.events[i].kind = "insert"
             /\ writers.events[j].kind = "insert"
             /\ writers.events[i].node_id = writers.events[j].node_id) =>
                /\ writers.events[i].writer # writers.events[j].writer
                /\ ReadOf(j) < i

\* C23 witness: both builders have inserted a row with the same node id,
\* and the store holds two rows with that id.
C23_Witness ==
    /\ writers.at # "idle"
    /\ \E r1, r2 \in cluster_tree : r1 # r2 /\ r1.node_id = r2.node_id

\* ------------------------------------------------------------ languages.py
\* C24: with several threads calling while the table is not loaded, the
\* file is loaded at most once, the global table is never a partly loaded
\* one, no call raises, and every call that has returned holds the
\* LanguageInfo of the namespace it asked for.
C24_LoadedOnceAndNeverPartial ==
    lang.at # "idle" =>
        /\ lang.loads <= 1
        /\ lang.table \in {{}, Range(FileRows)}
        /\ \A t \in LangThreads :
              /\ lang.threads[t].at # "raised"
              /\ lang.threads[t].at = "returned" =>
                    lang.threads[t].result =
                        {LanguageInfo(lang.threads[t].namespace)}

\* C24 witness: all threads have returned, and one of them had found the
\* table empty outside the lock and loaded once it held the lock.
C24_Witness ==
    /\ lang.at # "idle"
    /\ \A t \in LangThreads : lang.threads[t].at = "returned"
    /\ \E t \in LangThreads : lang.threads[t].found_loaded_under_lock

\* ---------------------------------------------------------------- cache.py
\* the time an entry lives according to the decorator's arguments
PromisedTtl ==
    IF cache.decorator_ttl # NULL THEN cache.decorator_ttl
    ELSE cache.config_ttl

\* C25: a call is served from the cache exactly while the entry of its key
\* is younger than the decorator's ttl, or than the configured default
\* when the decorator's ttl is None; from then on the wrapped function is
\* called again.
C25_EntryExpiresAfterDecoratorTtl ==
    cache.at # "idle" =>
        \A t \in cache.lookup.stored_at :
            cache.lookup.hit <=> cache.lookup.time < t + PromisedTtl

====
